---- MODULE Spec2Model ----
(***************************************************************************)
(* SNTP packet codec and clock-offset calculator (src/sntp_packet.py).     *)
(*                                                                         *)
(* Python values are modelled by what they are:                            *)
(*   - bytes          : a sequence over 0..255;                            *)
(*   - int            : unbounded.  The 8-bit fields and the li/vn/mode    *)
(*                      byte are TLC integers (every value drawn for them  *)
(*                      is small); a value of a 32-bit field does not fit  *)
(*                      TLC's integers and is a BigInt, a sign and the     *)
(*                      magnitude as digits in base 2^16;                  *)
(*   - float          : an IEEE-754 double, (-1)^neg * mag * 2^exp with    *)
(*                      mag an odd 53-bit natural (or zero); every         *)
(*                      arithmetic result is rounded to nearest, ties to   *)
(*                      even, as the hardware does.                        *)
(***************************************************************************)
EXTENDS Integers, Sequences, FiniteSets, TLC

VARIABLES pkt, op, arg, ret, tin, nset

vars == <<pkt, op, arg, ret, tin, nset>>

Max(a, b) == IF a >= b THEN a ELSE b

Min(a, b) == IF a <= b THEN a ELSE b

(***************************************************************************)
(* Naturals of any size: digits in base 2^16 ("limbs"), least significant  *)
(* first, without leading zero limbs.  The base is the model's choice (it  *)
(* keeps every limb operation inside TLC's integers); every operation      *)
(* below is exact.                                                         *)
(***************************************************************************)
LimbBits == 16

Base == 2^LimbBits

Limb(a, i) == IF i >= 1 /\ i <= Len(a) THEN a[i] ELSE 0

Trim(a) ==
  LET nz  == {i \in 1..Len(a) : a[i] # 0}
      top == IF nz = {} THEN 0 ELSE CHOOSE i \in nz : \A j \in nz : j <= i
  IN  SubSeq(a, 1, top)

\* a TLC natural as a natural of any size
FromNat(n) == Trim(<<n % Base, n \div Base>>)

\* number of binary digits of a limb
LimbLen(x) == IF x = 0 THEN 0 ELSE CHOOSE k \in 1..LimbBits : 2^(k-1) <= x /\ x < 2^k

\* number of binary digits
BitLen(a) == IF a = <<>> THEN 0 ELSE LimbBits * (Len(a) - 1) + LimbLen(a[Len(a)])

\* binary digit i (1 is the least significant)
BitAt(a, i) == (Limb(a, (i - 1) \div LimbBits + 1) \div 2^((i - 1) % LimbBits)) % 2

NatAdd(a, b) ==
  LET n        == Max(Len(a), Len(b)) + 1
      s(i)     == Limb(a, i) + Limb(b, i)
      carry(i) == IF \E j \in 1..(i-1) : /\ s(j) >= Base
                                          /\ \A k \in (j+1)..(i-1) : s(k) = Base - 1
                  THEN 1 ELSE 0
  IN  Trim([i \in 1..n |-> (s(i) + carry(i)) % Base])

NatLess(a, b) ==
  \/ Len(a) < Len(b)
  \/ /\ Len(a) = Len(b)
     /\ \E i \in 1..Len(a) : /\ a[i] < b[i]
                             /\ \A j \in (i+1)..Len(a) : a[j] = b[j]

\* a - b for a >= b
NatSub(a, b) ==
  LET borrow(i) == IF \E j \in 1..(i-1) : /\ Limb(a, j) < Limb(b, j)
                                           /\ \A k \in (j+1)..(i-1) : Limb(a, k) = Limb(b, k)
                   THEN 1 ELSE 0
  IN  Trim([i \in 1..Len(a) |-> (Limb(a, i) - Limb(b, i) - borrow(i)) % Base])

\* a * 2^k
Shl(a, k) ==
  LET q == k \div LimbBits
      r == k % LimbBits
  IN  Trim([i \in 1..(Len(a) + q + 1) |->
              (Limb(a, i - q) % 2^(LimbBits - r)) * 2^r
              + Limb(a, i - q - 1) \div 2^(LimbBits - r)])

\* a \div 2^k
Shr(a, k) ==
  LET q == k \div LimbBits
      r == k % LimbBits
  IN  Trim([i \in 1..Max(Len(a) - q, 0) |->
              Limb(a, i + q) \div 2^r + (Limb(a, i + q + 1) % 2^r) * 2^(LimbBits - r)])

\* a % 2^k # 0
LowBitsSet(a, k) == \E i \in 1..Min(k, BitLen(a)) : BitAt(a, i) = 1

\* n * m for TLC naturals n < 2^15, m < 2^31
NatTimes(n, m) == NatAdd(FromNat(n * (m % Base)), Shl(FromNat(n * (m \div Base)), LimbBits))

\* number of low zero binary digits of a non-zero natural
LowZeros(a) ==
  (CHOOSE i \in 1..BitLen(a) : BitAt(a, i) = 1 /\ \A j \in 1..(i-1) : BitAt(a, j) = 0) - 1

(***************************************************************************)
(* Python int, where it needs more than TLC's integers: sign and magnitude.*)
(***************************************************************************)
MkInt(neg, mag) == [neg |-> neg /\ mag # <<>>, mag |-> mag]

Int0 == MkInt(FALSE, <<>>)

IntOf(n) == IF n < 0 THEN MkInt(TRUE, FromNat(-n)) ELSE MkInt(FALSE, FromNat(n))

IAdd(x, y) ==
  IF x.neg = y.neg THEN MkInt(x.neg, NatAdd(x.mag, y.mag))
  ELSE IF NatLess(x.mag, y.mag) THEN MkInt(y.neg, NatSub(y.mag, x.mag))
  ELSE MkInt(x.neg, NatSub(x.mag, y.mag))

INeg(x) == MkInt(~x.neg, x.mag)

ISub(x, y) == IAdd(x, INeg(y))

ILess(x, y) == ISub(x, y).neg

(***************************************************************************)
(* Python float: IEEE-754 binary64, without its exponent limits (no value  *)
(* of this program comes near them).                                       *)
(***************************************************************************)
MantissaBits == 53

\* the canonical form of (-1)^neg * mag * 2^exp when mag has at most 53 digits
Normal(neg, mag, exp) ==
  IF mag = <<>> THEN [neg |-> FALSE, mag |-> <<>>, exp |-> 0]
  ELSE [neg |-> neg, mag |-> Shr(mag, LowZeros(mag)), exp |-> exp + LowZeros(mag)]

\* round (-1)^neg * mag * 2^exp to the nearest double, ties to even
RoundToDouble(neg, mag, exp) ==
  IF BitLen(mag) <= MantissaBits THEN Normal(neg, mag, exp)
  ELSE LET k      == BitLen(mag) - MantissaBits
           q      == Shr(mag, k)
           half   == BitAt(mag, k) = 1
           sticky == LowBitsSet(mag, k - 1)
           up     == half /\ (sticky \/ BitAt(q, 1) = 1)
       IN  Normal(neg, IF up THEN NatAdd(q, <<1>>) ELSE q, exp + k)

\* float(i) for an int i
IntToFloat(i) == RoundToDouble(i.neg, i.mag, 0)

\* int(x): truncation towards zero
FloatToInt(x) ==
  IF x.exp >= 0 THEN MkInt(x.neg, Shl(x.mag, x.exp))
  ELSE MkInt(x.neg, Shr(x.mag, -x.exp))

FAdd(x, y) ==
  LET e == Min(x.exp, y.exp)
      s == IAdd(MkInt(x.neg, Shl(x.mag, x.exp - e)), MkInt(y.neg, Shl(y.mag, y.exp - e)))
  IN  RoundToDouble(s.neg, s.mag, e)

FNeg(x) == Normal(~x.neg, x.mag, x.exp)

FSub(x, y) == FAdd(x, FNeg(y))

\* x * 2^k and x / 2^k: exact
FScale(x, k) == Normal(x.neg, x.mag, x.exp + k)

\* i / 2^k for an int i (true division, correctly rounded)
IntDivPow2(i, k) == RoundToDouble(i.neg, i.mag, -k)

FLess(x, y) ==
  LET e == Min(x.exp, y.exp)
  IN  ILess(MkInt(x.neg, Shl(x.mag, x.exp - e)), MkInt(y.neg, Shl(y.mag, y.exp - e)))

(***************************************************************************)
(* NTP timestamps (src/sntp_packet.py 70-82, 115-116).                     *)
(***************************************************************************)
DaysFrom1900To1970 == 25567

SecondsPerDay == 86400

FractionBits == 32

\* datetime(1900, 1, 1, tzinfo=utc).timestamp(): -2208988800.0
get_ntp_timestamp_offset ==
  IntToFloat(MkInt(TRUE, NatTimes(DaysFrom1900To1970, SecondsPerDay)))

\* encode_ntp_timestamp with the epoch offset added instead of subtracted
encode_ntp_timestamp_added(timestamp) ==
  LET ntp_timestamp   == FAdd(timestamp, get_ntp_timestamp_offset)
      second          == FloatToInt(ntp_timestamp)
      fraction_second ==
        FloatToInt(FScale(FSub(ntp_timestamp, IntToFloat(second)), FractionBits))
  IN  <<second, fraction_second>>

encode_ntp_timestamp(timestamp) ==
  LET ntp_timestamp   == FSub(timestamp, get_ntp_timestamp_offset)
      second          == FloatToInt(ntp_timestamp)
      fraction_second ==
        FloatToInt(FScale(FSub(ntp_timestamp, IntToFloat(second)), FractionBits))
  IN  <<second, fraction_second>>

decode_ntp_timestamp(seconds, fraction_seconds) ==
  LET fraction      == IntDivPow2(fraction_seconds, FractionBits)
      ntp_timestamp == FAdd(IntToFloat(seconds), fraction)
  IN  FAdd(ntp_timestamp, get_ntp_timestamp_offset)

(***************************************************************************)
(* Clock offset (src/sntp_packet.py 153-159).                              *)
(***************************************************************************)
\* compute_offset taking its arguments in the order t1, t2, t3, t4 of the protocol
compute_offset_protocol_order(t1, t2, t3, t4) ==
  LET theta_1_second   == ISub(t2[1], t1[1])
      theta_1_fraction == IntDivPow2(ISub(t2[2], t1[2]), FractionBits)
      theta_2_second   == ISub(t3[1], t4[1])
      theta_2_fraction == IntDivPow2(ISub(t3[2], t4[2]), FractionBits)
  IN  FScale(FAdd(FAdd(FAdd(IntToFloat(theta_1_second), theta_1_fraction),
                       IntToFloat(theta_2_second)),
                  theta_2_fraction), -1)

compute_offset(client_transmission_time, client_reception_time, server_transmission_time, server_reception_time) ==
  LET theta_1_second   == ISub(server_reception_time[1], client_transmission_time[1])
      theta_1_fraction ==
        IntDivPow2(ISub(server_reception_time[2], client_transmission_time[2]), FractionBits)
      theta_2_second   == ISub(server_transmission_time[1], client_reception_time[1])
      theta_2_fraction ==
        IntDivPow2(ISub(server_transmission_time[2], client_reception_time[2]), FractionBits)
  IN  FScale(FAdd(FAdd(FAdd(IntToFloat(theta_1_second), theta_1_fraction),
                       IntToFloat(theta_2_second)),
                  theta_2_fraction), -1)

(***************************************************************************)
(* The struct module, for the format codes the packet uses: '>' (big       *)
(* endian, standard sizes, no padding), 'B' (unsigned byte) and 'I'        *)
(* (unsigned 32-bit).  A format is its sequence of characters.  A 'B'      *)
(* value is a TLC integer, an 'I' value a BigInt.                          *)
(***************************************************************************)
Ok(v) == [err |-> "none", val |-> v]

Raise(e) == [err |-> e, val |-> <<>>]

Codes(fmt) == Tail(fmt)

CodeSize(c) == IF c = "B" THEN 1 ELSE 4

RECURSIVE struct_calcsize(_)
struct_calcsize(codes) ==
  IF codes = <<>> THEN 0 ELSE CodeSize(Head(codes)) + struct_calcsize(Tail(codes))

\* a struct.pack that checks no range
Packable_unchecked(c, v) == TRUE

\* whether struct.pack accepts value v for code c
Packable(c, v) ==
  IF c = "B" THEN v >= 0 /\ v < 2^8
  ELSE ~v.neg /\ BitLen(v.mag) <= 32

\* the bytes of value v under code c, most significant first
PackOne(c, v) ==
  IF c = "B" THEN <<v>>
  ELSE [k \in 1..4 |-> Limb(Shr(v.mag, 8 * (4 - k)), 1) % 2^8]

RECURSIVE PackAll(_, _)
PackAll(codes, values) ==
  IF codes = <<>> THEN <<>>
  ELSE PackOne(Head(codes), Head(values)) \o PackAll(Tail(codes), Tail(values))

struct_pack(fmt, values) ==
  IF Len(values) # Len(Codes(fmt)) THEN Raise("struct.error")
  ELSE IF \E i \in 1..Len(values) : ~Packable(Codes(fmt)[i], values[i])
  THEN Raise("struct.error")
  ELSE Ok(PackAll(Codes(fmt), values))

\* the value of code c read from buff at 0-based offset o
UnpackOne(c, buff, o) ==
  IF c = "B" THEN buff[o + 1]
  ELSE MkInt(FALSE, Trim(<<buff[o + 3] * 2^8 + buff[o + 4], buff[o + 1] * 2^8 + buff[o + 2]>>))

\* a struct.unpack that only requires the buffer to be long enough
struct_unpack_prefix(fmt, buff) ==
  IF Len(buff) < struct_calcsize(Codes(fmt)) THEN Raise("struct.error")
  ELSE Ok([i \in 1..Len(Codes(fmt)) |->
             UnpackOne(Codes(fmt)[i], buff, struct_calcsize(SubSeq(Codes(fmt), 1, i - 1)))])

struct_unpack(fmt, buff) ==
  IF Len(buff) # struct_calcsize(Codes(fmt)) THEN Raise("struct.error")
  ELSE Ok([i \in 1..Len(Codes(fmt)) |->
             UnpackOne(Codes(fmt)[i], buff, struct_calcsize(SubSeq(Codes(fmt), 1, i - 1)))])

(***************************************************************************)
(* The packet object (src/sntp_packet.py 5-68, 84-113, 138-151).           *)
(***************************************************************************)
DataFields ==
  {"li", "vn", "mode", "stratum", "poll", "precision", "root_delay", "root_dispersion",
   "reference_identifier", "reference_timestamp", "originate_timestamp",
   "receive_timestamp", "transmit_timestamp"}

FormatFields ==
  {"li_vn_mode_format", "stratum_format", "poll_format", "precision_format",
   "root_delay_format", "root_dispersion_format", "reference_identifier_format",
   "reference_timestamp_format", "originate_timestamp_format",
   "receive_timestamp_format", "transmit_timestamp_format"}

\* SNTP_Packet()
NewPacket ==
  [li |-> 0, vn |-> 0, mode |-> 0, stratum |-> 0, poll |-> 0, precision |-> 0,
   root_delay |-> Int0, root_dispersion |-> Int0, reference_identifier |-> Int0,
   reference_timestamp |-> <<Int0, Int0>>, originate_timestamp |-> <<Int0, Int0>>,
   receive_timestamp |-> <<Int0, Int0>>, transmit_timestamp |-> <<Int0, Int0>>,
   li_vn_mode_format |-> <<"B">>, stratum_format |-> <<"B">>, poll_format |-> <<"B">>,
   precision_format |-> <<"B">>, root_delay_format |-> <<"I">>,
   root_dispersion_format |-> <<"I">>, reference_identifier_format |-> <<"I">>,
   reference_timestamp_format |-> <<"I", "I">>, originate_timestamp_format |-> <<"I", "I">>,
   receive_timestamp_format |-> <<"I", "I">>, transmit_timestamp_format |-> <<"I", "I">>]

\* encode_li_vn_mode shifting vn by the width of li instead of the width of mode
encode_li_vn_mode_shift2(self) == self.li * 2^6 + self.vn * 2^2 + self.mode

\* (self.li << 6) + (self.vn << 3) + self.mode
encode_li_vn_mode(self) == self.li * 2^6 + self.vn * 2^3 + self.mode

\* a & b for naturals below 2^8
BitAnd(a, b) ==
  LET bit(x, i) == (x \div 2^i) % 2
      term[i \in 0..8] == IF i = 8 THEN 0 ELSE bit(a, i) * bit(b, i) * 2^i + term[i + 1]
  IN  term[0]

\* decode_li_vn_mode with a one-bit li mask
decode_li_vn_mode_narrow(val) ==
  LET li_mask   == 128
      vn_mask   == 56
      mode_mask == 7
      li        == BitAnd(val, li_mask) \div 2^6
      vn        == BitAnd(val, vn_mask) \div 2^3
      mode      == BitAnd(val, mode_mask)
  IN  <<li, vn, mode>>

decode_li_vn_mode(val) ==
  LET li_mask   == 192
      vn_mask   == 56
      mode_mask == 7
      li        == BitAnd(val, li_mask) \div 2^6
      vn        == BitAnd(val, vn_mask) \div 2^3
      mode      == BitAnd(val, mode_mask)
  IN  <<li, vn, mode>>

get_packet_format(self) ==
  <<">">> \o self.li_vn_mode_format \o self.stratum_format \o self.poll_format
    \o self.precision_format \o self.root_delay_format \o self.root_dispersion_format
    \o self.reference_identifier_format \o self.reference_timestamp_format
    \o self.originate_timestamp_format \o self.receive_timestamp_format
    \o self.transmit_timestamp_format

get_packet_value(self) ==
  <<encode_li_vn_mode(self), self.stratum, self.poll, self.precision, self.root_delay,
    self.root_dispersion, self.reference_identifier>>
    \o self.reference_timestamp \o self.originate_timestamp
    \o self.receive_timestamp \o self.transmit_timestamp

to_bytes(self) == struct_pack(get_packet_format(self), get_packet_value(self))

\* a from_bytes that clears the data fields before it unpacks
from_bytes_clearing(self, buff) ==
  LET u       == struct_unpack(get_packet_format(self), buff)
      fields  == u.val
      lvm     == decode_li_vn_mode(fields[1])
      cleared == [f \in DOMAIN self |-> IF f \in DataFields THEN NewPacket[f] ELSE self[f]]
      after   == [self EXCEPT !.li = lvm[1], !.vn = lvm[2], !.mode = lvm[3],
                              !.stratum = fields[2], !.poll = fields[3],
                              !.precision = fields[4], !.root_delay = fields[5],
                              !.root_dispersion = fields[6],
                              !.reference_identifier = fields[7],
                              !.reference_timestamp = <<fields[8], fields[9]>>,
                              !.originate_timestamp = <<fields[10], fields[11]>>,
                              !.receive_timestamp = <<fields[12], fields[13]>>,
                              !.transmit_timestamp = <<fields[14], fields[15]>>]
  IN  IF u.err # "none" THEN [self |-> cleared, out |-> Raise(u.err)]
      ELSE [self |-> after, out |-> Ok(after)]

\* the packet after self.from_bytes(buff) and what the call returns
from_bytes(self, buff) ==
  LET u      == struct_unpack(get_packet_format(self), buff)
      fields == u.val
      lvm    == decode_li_vn_mode(fields[1])
      after  == [self EXCEPT !.li = lvm[1], !.vn = lvm[2], !.mode = lvm[3],
                             !.stratum = fields[2], !.poll = fields[3],
                             !.precision = fields[4], !.root_delay = fields[5],
                             !.root_dispersion = fields[6],
                             !.reference_identifier = fields[7],
                             !.reference_timestamp = <<fields[8], fields[9]>>,
                             !.originate_timestamp = <<fields[10], fields[11]>>,
                             !.receive_timestamp = <<fields[12], fields[13]>>,
                             !.transmit_timestamp = <<fields[14], fields[15]>>]
  IN  IF u.err # "none" THEN [self |-> self, out |-> Raise(u.err)]
      ELSE [self |-> after, out |-> Ok(after)]

\* a client_packet announcing server mode
client_packet_mode4(curr_time) ==
  [NewPacket EXCEPT !.li = 0, !.vn = 4, !.mode = 4,
                    !.transmit_timestamp = encode_ntp_timestamp(curr_time)]

\* SNTP_Packet.client_packet() when the clock reads curr_time
client_packet(curr_time) ==
  [NewPacket EXCEPT !.li = 0, !.vn = 4, !.mode = 3,
                    !.transmit_timestamp = encode_ntp_timestamp(curr_time)]

(***************************************************************************)
(* Inputs.                                                                 *)
(***************************************************************************)
MaxAssign == 2

MaxPattern == 2

MaxDelta == 1

\* the 32-bit word hi * 2^16 + lo (hi may exceed 16 bits: a value too wide for 'I')
Word(hi, lo) == MkInt(FALSE, Trim(<<lo, hi % Base, hi \div Base>>))

WordMax == Word(Base - 1, Base - 1)

WordOver == Word(Base, 0)

WireSize == struct_calcsize(Codes(get_packet_format(NewPacket)))

\* the values a caller assigns to a field
Assignable(f) ==
  CASE f = "li"        -> {4}
    [] f = "vn"        -> {4, 8}
    [] f = "mode"      -> {3, 8}
    [] f = "stratum"   -> {256}
    [] f = "precision" -> {-1}
    [] f = "root_delay"           -> {WordOver}
    [] f = "reference_identifier" -> {Word(19535, 17228)}
    [] f = "receive_timestamp"    -> {<<Int0, WordOver>>}
    [] f = "transmit_timestamp"   -> {<<Word(59646, 26113), Word(32768, 0)>>}
    [] OTHER -> {}

Buf(n, k) == [i \in 1..n |-> (k * (i + 84)) % 2^8]

BufLens == {0} \cup {WireSize - d : d \in 0..MaxDelta} \cup {WireSize + d : d \in 0..MaxDelta}

Buffers ==
  {Buf(WireSize, k) : k \in 0..MaxPattern} \cup {Buf(n, 1) : n \in BufLens}
    \cup {[i \in 1..WireSize |-> 2^8 - 1]}

\* the double (sec - 2208988800) + num / 2^k, sec a BigInt: a Unix time given by its NTP second
UnixTime(sec, num, k) ==
  LET off == MkInt(FALSE, NatTimes(DaysFrom1900To1970, SecondsPerDay))
      u   == ISub(sec, off)
      n   == IAdd(MkInt(u.neg, Shl(u.mag, k)), IntOf(num))
  IN  Normal(n.neg, n.mag, -k)

IsDouble(x) == BitLen(x.mag) <= MantissaBits

\* what the clock may read: 2023-11-14T22:13:20.5Z, the same second plus 2^-20 - 2^-22,
\* and 2036-02-07T06:28:16Z, the first second past the 32-bit NTP era
ClockReadings ==
  {UnixTime(Word(59646, 26112), 1, 1), UnixTime(Word(59646, 26112), 3, 22), UnixTime(WordOver, 0, 0)}

(***************************************************************************)
(* The packet codec as a state machine: one packet object, the calls made  *)
(* on it, and for the last call its name (op), its argument (arg) and its  *)
(* outcome (ret).                                                          *)
(***************************************************************************)
Init ==
  /\ pkt = NewPacket
  /\ op = "__init__"
  /\ arg = <<>>
  /\ ret = Ok(<<>>)
  /\ tin = <<>>
  /\ nset = 0

\* packet = SNTP_Packet()
New ==
  /\ pkt' = NewPacket
  /\ op' = "__init__"
  /\ arg' = <<>>
  /\ ret' = Ok(<<>>)
  /\ UNCHANGED <<tin, nset>>

\* packet.<f> = v
SetField ==
  /\ nset < MaxAssign
  /\ \E f \in DataFields : \E v \in Assignable(f) :
       /\ pkt' = [pkt EXCEPT ![f] = v]
       /\ arg' = <<f, v>>
  /\ op' = "setattr"
  /\ ret' = Ok(<<>>)
  /\ nset' = nset + 1
  /\ UNCHANGED tin

\* packet.to_bytes()
ToBytes ==
  /\ op' = "to_bytes"
  /\ arg' = <<>>
  /\ ret' = to_bytes(pkt)
  /\ UNCHANGED <<pkt, tin, nset>>

\* packet.from_bytes(buff), buff a received datagram or the bytes just serialized
FromBytes ==
  /\ \E buff \in Buffers \cup (IF op = "to_bytes" /\ ret.err = "none" THEN {ret.val} ELSE {}) :
       LET r == from_bytes(pkt, buff)
       IN  /\ pkt' = r.self
           /\ ret' = r.out
           /\ arg' = buff
  /\ op' = "from_bytes"
  /\ UNCHANGED <<tin, nset>>

\* packet = SNTP_Packet.client_packet()
ClientPacket ==
  /\ \E now \in ClockReadings :
       LET packet == client_packet(now)
       IN  /\ pkt' = packet
           /\ ret' = Ok(packet)
           /\ arg' = now
  /\ op' = "client_packet"
  /\ UNCHANGED <<tin, nset>>

Next == New \/ SetField \/ ToBytes \/ FromBytes \/ ClientPacket

Spec == Init /\ [][Next]_vars

(***************************************************************************)
(* The timestamp conversions applied to sampled calendar times: a call of  *)
(* encode_ntp_timestamp, then decode_ntp_timestamp on what it returned     *)
(* (tin keeps the calendar time the pair came from).                       *)
(***************************************************************************)
MaxFracBits == 34

\* NTP seconds of 1900-01-01, 1900-01-01T00:00:01, 1970-01-01, 2023-11-14T22:13:20,
\* 2036-02-07T06:28:15 (the last of the era), 2036-02-07T06:28:16 and 1899-12-31T23:59:59
NtpSeconds ==
  {Int0, IntOf(1), Word(33706, 32384), Word(59646, 26112), WordMax, WordOver, IntOf(-1)}

\* numerators of the sampled fractions num / 2^k of a second
FracNums(k) == {0, 1, 3} \cup (IF k <= 30 THEN {2^k - 1} ELSE {})

TimeSamples ==
  {t \in UNION {{UnixTime(sec, num, k) : sec \in NtpSeconds, num \in FracNums(k)} :
                   k \in 0..MaxFracBits} : IsDouble(t)}

InitTime ==
  /\ pkt = NewPacket
  /\ op = "__init__"
  /\ arg \in TimeSamples
  /\ ret = Ok(<<>>)
  /\ tin = <<>>
  /\ nset = 0

\* packet.encode_ntp_timestamp(timestamp)
EncodeNtp ==
  /\ op = "__init__"
  /\ op' = "encode_ntp_timestamp"
  /\ ret' = Ok(encode_ntp_timestamp(arg))
  /\ UNCHANGED <<pkt, arg, tin, nset>>

\* packet.decode_ntp_timestamp(*pair) for the pair just returned
DecodeNtp ==
  /\ op = "encode_ntp_timestamp"
  /\ op' = "decode_ntp_timestamp"
  /\ arg' = ret.val
  /\ ret' = Ok(decode_ntp_timestamp(ret.val[1], ret.val[2]))
  /\ tin' = <<arg>>
  /\ UNCHANGED <<pkt, nset>>

NextTime == EncodeNtp \/ DecodeNtp

SpecTime == InitTime /\ [][NextTime]_vars

(***************************************************************************)
(* compute_offset applied to sampled timestamp pairs.                      *)
(***************************************************************************)
StampSamples ==
  {<<sec, frac>> : sec \in {Int0, IntOf(1), Word(8, 0), WordMax},
                   frac \in {Int0, IntOf(1), WordMax}}

InitOffset ==
  /\ pkt = NewPacket
  /\ op = "__init__"
  /\ arg \in StampSamples \X StampSamples \X StampSamples \X StampSamples
  /\ ret = Ok(<<>>)
  /\ tin = <<>>
  /\ nset = 0

\* SNTP_Packet.compute_offset(arg[1], arg[2], arg[3], arg[4])
ComputeOffset ==
  /\ op = "__init__"
  /\ op' = "compute_offset"
  /\ ret' = Ok(compute_offset(arg[1], arg[2], arg[3], arg[4]))
  /\ UNCHANGED <<pkt, arg, tin, nset>>

NextOffset == ComputeOffset

SpecOffset == InitOffset /\ [][NextOffset]_vars

(***************************************************************************)
(* The li/vn/mode byte on its own: encode_li_vn_mode on a packet whose     *)
(* three fields are drawn from their ranges (and OverRange values past     *)
(* them), then decode_li_vn_mode on the byte it returned.                  *)
(***************************************************************************)
OverRange == 1

InitByte ==
  /\ \E li \in 0..(3 + OverRange), vn \in 0..(7 + OverRange), mode \in 0..(7 + OverRange) :
       pkt = [NewPacket EXCEPT !.li = li, !.vn = vn, !.mode = mode]
  /\ op = "__init__"
  /\ arg = <<>>
  /\ ret = Ok(<<>>)
  /\ tin = <<>>
  /\ nset = 0

\* packet.encode_li_vn_mode()
EncodeLiVnMode ==
  /\ op = "__init__"
  /\ op' = "encode_li_vn_mode"
  /\ ret' = Ok(encode_li_vn_mode(pkt))
  /\ UNCHANGED <<pkt, arg, tin, nset>>

\* packet.decode_li_vn_mode(val) for the byte just returned
DecodeLiVnMode ==
  /\ op = "encode_li_vn_mode"
  /\ op' = "decode_li_vn_mode"
  /\ arg' = ret.val
  /\ ret' = Ok(decode_li_vn_mode(ret.val))
  /\ UNCHANGED <<pkt, tin, nset>>

NextByte == EncodeLiVnMode \/ DecodeLiVnMode

SpecByte == InitByte /\ [][NextByte]_vars

(***************************************************************************)
(* What the claims speak of, stated without the code's own helpers.        *)
(***************************************************************************)
DataOf(p) == [f \in DataFields |-> p[f]]

FormatsOf(p) == [f \in FormatFields |-> p[f]]

IsByte(v) == v \in 0..255

\* a value in 0..2^32-1
IsWord(w) == ~w.neg /\ BitLen(w.mag) <= 32

IsStamp(ts) == IsWord(ts[1]) /\ IsWord(ts[2])

\* the ranges of the data model
InDataModel(p) ==
  /\ p.li \in 0..3 /\ p.vn \in 0..7 /\ p.mode \in 0..7
  /\ IsByte(p.stratum) /\ IsByte(p.poll) /\ p.precision \in -128..127
  /\ IsWord(p.root_delay) /\ IsWord(p.root_dispersion) /\ IsWord(p.reference_identifier)
  /\ IsStamp(p.reference_timestamp) /\ IsStamp(p.originate_timestamp)
  /\ IsStamp(p.receive_timestamp) /\ IsStamp(p.transmit_timestamp)

\* a | b for naturals below 2^8
BitOr(a, b) ==
  LET bit(x, i) == (x \div 2^i) % 2
      either(i) == IF bit(a, i) + bit(b, i) > 0 THEN 2^i ELSE 0
  IN  either(0) + either(1) + either(2) + either(3) + either(4) + either(5) + either(6)
        + either(7)

\* byte j (0 the most significant) of the 32-bit big-endian form of w mod 2^32
WordByte(w, j) ==
  LET bit(i) == BitAt(w.mag, 8 * (3 - j) + i)
  IN  bit(1) + 2 * bit(2) + 4 * bit(3) + 8 * bit(4) + 16 * bit(5) + 32 * bit(6)
        + 64 * bit(7) + 128 * bit(8)

WordBytes(w) == <<WordByte(w, 0), WordByte(w, 1), WordByte(w, 2), WordByte(w, 3)>>

StampBytes(ts) == WordBytes(ts[1]) \o WordBytes(ts[2])

\* the 48 bytes of the wire format for first byte b0 and the fields of p
WireFormat(b0, p) ==
  <<b0, p.stratum % 256, p.poll % 256, p.precision % 256>>
    \o WordBytes(p.root_delay) \o WordBytes(p.root_dispersion)
    \o WordBytes(p.reference_identifier)
    \o StampBytes(p.reference_timestamp) \o StampBytes(p.originate_timestamp)
    \o StampBytes(p.receive_timestamp) \o StampBytes(p.transmit_timestamp)

\* the 32-bit big-endian unsigned integer at bytes o..o+3 (0-based) of buff
WordAt(buff, o) ==
  MkInt(FALSE, Trim(<<buff[o + 3] * 256 + buff[o + 4], buff[o + 1] * 256 + buff[o + 2]>>))

StampAt(buff, o) == <<WordAt(buff, o), WordAt(buff, o + 4)>>

\* the 13 data fields the wire format gives a 48-byte buffer
WireFields(buff) ==
  [li |-> buff[1] \div 64, vn |-> (buff[1] \div 8) % 8, mode |-> buff[1] % 8,
   stratum |-> buff[2], poll |-> buff[3], precision |-> buff[4],
   root_delay |-> WordAt(buff, 4), root_dispersion |-> WordAt(buff, 8),
   reference_identifier |-> WordAt(buff, 12),
   reference_timestamp |-> StampAt(buff, 16), originate_timestamp |-> StampAt(buff, 24),
   receive_timestamp |-> StampAt(buff, 32), transmit_timestamp |-> StampAt(buff, 40)]

(***************************************************************************)
(* C1.  Round trip: for every packet whose fields lie in the ranges of the *)
(* data model, to_bytes succeeds and from_bytes of its result yields the   *)
(* same 13 field values.                                                   *)
(* Fails in the code: precision is packed with the unsigned code 'B', so a *)
(* negative precision makes to_bytes raise struct.error.                   *)
(***************************************************************************)
C1_RoundTrip ==
  (op = "to_bytes" /\ InDataModel(pkt)) =>
    /\ ret.err = "none"
    /\ from_bytes(NewPacket, ret.val).out.err = "none"
    /\ DataOf(from_bytes(NewPacket, ret.val).self) = DataOf(pkt)

(***************************************************************************)
(* C3.  from_bytes raises, and returns no packet, for every buffer whose   *)
(* length is not 48, and accepts every buffer of exactly 48 bytes.         *)
(***************************************************************************)
C3_LengthCheck ==
  op = "from_bytes" =>
    /\ Len(arg) = 48 => ret.err = "none" /\ ret.val = pkt
    /\ Len(arg) # 48 => ret.err = "struct.error" /\ ret.val = <<>>

C3_Witness == op = "from_bytes" /\ Len(arg) = 49 /\ ret.err = "struct.error"

(***************************************************************************)
(* C4 as stated: to_bytes never fails; a field outside its width is        *)
(* reduced modulo 2^width, the other fields are unchanged, and an          *)
(* oversized vn or mode does not reach the li or vn bits.                  *)
(***************************************************************************)
C4_SilentTruncation ==
  op = "to_bytes" =>
    /\ ret.err = "none"
    /\ ret.val = WireFormat((pkt.li % 4) * 64 + (pkt.vn % 8) * 8 + (pkt.mode % 8), pkt)

\* every value to_bytes hands to struct.pack is inside the range of its format code
FitsWire(p) ==
  /\ IsByte(p.li * 64 + p.vn * 8 + p.mode)
  /\ IsByte(p.stratum) /\ IsByte(p.poll) /\ IsByte(p.precision)
  /\ IsWord(p.root_delay) /\ IsWord(p.root_dispersion) /\ IsWord(p.reference_identifier)
  /\ IsStamp(p.reference_timestamp) /\ IsStamp(p.originate_timestamp)
  /\ IsStamp(p.receive_timestamp) /\ IsStamp(p.transmit_timestamp)

(***************************************************************************)
(* C4 as amended: to_bytes truncates nothing.  It raises struct.error      *)
(* exactly when a value it packs is outside the range of its format code   *)
(* (stratum, poll, precision or the sum (li << 6) + (vn << 3) + mode       *)
(* outside 0..255, a 32-bit field or timestamp component outside           *)
(* 0..2^32-1); otherwise it returns the 48 bytes holding every field       *)
(* unchanged, with first byte the arithmetic sum, so that an oversized vn  *)
(* or mode is added into the li or vn bits.                                *)
(***************************************************************************)
C4_PackOrRaise ==
  op = "to_bytes" =>
    /\ ret.err = (IF FitsWire(pkt) THEN "none" ELSE "struct.error")
    /\ ret.err = "none" =>
         ret.val = WireFormat(pkt.li * 64 + pkt.vn * 8 + pkt.mode, pkt)

C4_Witness == op = "to_bytes" /\ pkt.stratum = 256 /\ ret.err = "struct.error"

(***************************************************************************)
(* C6.  to_bytes lays a well-formed packet out in the 48-byte wire format: *)
(* byte 0 the li/vn/mode byte, bytes 1-3 stratum, poll, precision, then    *)
(* the big-endian 32-bit root delay, root dispersion and reference         *)
(* identifier, then the four timestamps as seconds and fraction.           *)
(* Fails in the code for a negative precision (the defect of C1): to_bytes *)
(* raises instead of returning 48 bytes.                                   *)
(***************************************************************************)
C6_WireLayout ==
  (op = "to_bytes" /\ InDataModel(pkt)) =>
    /\ ret.err = "none"
    /\ Len(ret.val) = 48
    /\ ret.val = WireFormat(BitOr(BitOr(pkt.li * 64, pkt.vn * 8), pkt.mode), pkt)

\* the layout of C6 for every packet to_bytes does serialize
LayoutWhenPacked ==
  (op = "to_bytes" /\ ret.err = "none") =>
    /\ Len(ret.val) = 48
    /\ ret.val = WireFormat(pkt.li * 64 + pkt.vn * 8 + pkt.mode, pkt)

(***************************************************************************)
(* C8.  client_packet returns, whatever the clock reads, a packet with     *)
(* li = 0, vn = 4, mode = 3, every other scalar field 0, reference,        *)
(* originate and receive timestamps (0, 0) and transmit timestamp          *)
(* encode_ntp_timestamp(now); the first byte it serializes is 0x23.        *)
(***************************************************************************)
C8_ClientPacket ==
  op = "client_packet" =>
    /\ ret.val = pkt
    /\ DataOf(pkt) = [DataOf(NewPacket) EXCEPT !.vn = 4, !.mode = 3,
                        !.transmit_timestamp = encode_ntp_timestamp(arg)]
    /\ FormatsOf(pkt) = FormatsOf(NewPacket)
    /\ get_packet_value(pkt)[1] = 35
    /\ to_bytes(pkt).err = "none" => to_bytes(pkt).val[1] = 35

C8_Witness ==
  /\ op = "client_packet"
  /\ arg = UnixTime(Word(59646, 26112), 1, 1)
  /\ pkt.transmit_timestamp = <<Word(59646, 26112), Word(32768, 0)>>
  /\ to_bytes(pkt).err = "none"

(***************************************************************************)
(* C9.  Every 48-byte buffer decodes, whatever its bytes, to_bytes of the  *)
(* decoded packet gives the buffer back byte for byte, and the decoded     *)
(* fields are those of the buffer alone, whatever the packet held before.  *)
(***************************************************************************)
C9_PassThrough ==
  (op = "from_bytes" /\ Len(arg) = 48) =>
    /\ ret.err = "none"
    /\ to_bytes(pkt) = Ok(arg)
    /\ DataOf(pkt) = WireFields(arg)

C9_Witness ==
  /\ op = "from_bytes"
  /\ arg = [i \in 1..48 |-> 255]
  /\ pkt.mode = 7 /\ pkt.stratum = 255
  /\ nset > 0

(***************************************************************************)
(* C10.  A from_bytes call that fails (a buffer not of 48 bytes) leaves    *)
(* the packet as it was; one that succeeds sets all 13 data fields from    *)
(* the buffer and leaves the 11 format strings as they were.               *)
(***************************************************************************)
C10_AtomicDecode ==
  [][op' = "from_bytes" =>
       /\ Len(arg') # 48 => ret'.err # "none" /\ pkt' = pkt
       /\ Len(arg') = 48 =>
            /\ ret'.err = "none"
            /\ \A f \in DataFields : pkt'[f] = WireFields(arg')[f]
            /\ FormatsOf(pkt') = FormatsOf(pkt)]_vars

C10_Witness ==
  /\ op = "from_bytes"
  /\ ret.err = "struct.error"
  /\ pkt.li = 2 /\ pkt.vn = 8 /\ pkt.precision = -1

(***************************************************************************)
(* C5.  For li in 0..3, vn in 0..7 and mode in 0..7, encode_li_vn_mode     *)
(* returns the byte (li << 6) | (vn << 3) | mode, and decode_li_vn_mode of *)
(* that byte returns (li, vn, mode).                                       *)
(***************************************************************************)
C5_CompositeByte ==
  (pkt.li \in 0..3 /\ pkt.vn \in 0..7 /\ pkt.mode \in 0..7) =>
    /\ op = "encode_li_vn_mode" =>
         /\ ret.val = BitOr(BitOr(pkt.li * 64, pkt.vn * 8), pkt.mode)
         /\ ret.val \in 0..255
    /\ op = "decode_li_vn_mode" => ret.val = <<pkt.li, pkt.vn, pkt.mode>>

C5_Witness ==
  /\ op = "decode_li_vn_mode"
  /\ pkt.li = 2 /\ pkt.vn = 5 /\ pkt.mode = 6
  /\ arg = 174

(***************************************************************************)
(* Exact arithmetic for the numerical claims: a double or an int as an     *)
(* integer number of units of 2^-u seconds.                                *)
(***************************************************************************)
Units == MaxFracBits + FractionBits

\* x * 2^u for a double x that is a multiple of 2^-u
Exact(x, u) == MkInt(x.neg, Shl(x.mag, x.exp + u))

\* i * 2^u for an int i
Scaled(i, u) == MkInt(i.neg, Shl(i.mag, u))

IAbs(x) == MkInt(FALSE, x.mag)

\* x <= y
ILeq(x, y) == ~ILess(y, x)

\* 2^k
Pow2(k) == MkInt(FALSE, Shl(<<1>>, k))

\* the exact NTP time of calendar time t: t + 2208988800 seconds, in units of 2^-Units
NtpExact(t) ==
  IAdd(Exact(t, Units), Scaled(MkInt(FALSE, NatTimes(DaysFrom1900To1970, SecondsPerDay)), Units))

\* the NTP time is not negative and its seconds part is below 2^32
Representable(t) == ~NtpExact(t).neg /\ BitLen(Shr(NtpExact(t).mag, Units)) <= 32

\* floor(x / 2^k) for x >= 0
Floor(x, k) == MkInt(FALSE, Shr(x.mag, k))

\* x mod 2^k for x >= 0
Frac(x, k) == ISub(x, Scaled(Floor(x, k), k))

(***************************************************************************)
(* C7 as stated: for a calendar time t with NTP time in [0, 2^32),         *)
(* encode_ntp_timestamp returns seconds = floor(ntp_time) and              *)
(* fraction = floor((ntp_time - seconds) * 2^32) in 0..2^32-1, and         *)
(* decode_ntp_timestamp of the pair is at most t and less than 2^-32       *)
(* below it.                                                               *)
(***************************************************************************)
C7_ExactRoundTrip ==
  /\ (op = "encode_ntp_timestamp" /\ Representable(arg)) =>
       /\ ret.val[1] = Floor(NtpExact(arg), Units)
       /\ ret.val[2] = Floor(Frac(NtpExact(arg), Units), Units - 32)
       /\ IsWord(ret.val[2])
  /\ (op = "decode_ntp_timestamp" /\ Representable(tin[1])) =>
       /\ ILeq(Exact(ret.val, Units), Exact(tin[1], Units))
       /\ ILess(ISub(Exact(tin[1], Units), Exact(ret.val, Units)), Pow2(Units - 32))

\* the double nearest the exact NTP time of t, in units of 2^-Units
NtpRounded(t) == Exact(RoundToDouble(FALSE, NtpExact(t).mag, -Units), Units)

(***************************************************************************)
(* C7 as amended: the NTP time the code works with is the double nearest   *)
(* t + 2208988800, not the exact sum.  For a double t with exact NTP time  *)
(* in [0, 2^32), encode_ntp_timestamp returns seconds = floor(n) and       *)
(* fraction = floor((n - seconds) * 2^32) in 0..2^32-1 for that double n,  *)
(* and decode_ntp_timestamp of the pair differs from t by at most 2^-22    *)
(* seconds, in either direction.                                           *)
(***************************************************************************)
C7_DoubleRoundTrip ==
  /\ (op = "encode_ntp_timestamp" /\ Representable(arg)) =>
       /\ ret.val[1] = Floor(NtpRounded(arg), Units)
       /\ ret.val[2] = Floor(Frac(NtpRounded(arg), Units), Units - 32)
       /\ IsWord(ret.val[2])
  /\ (op = "decode_ntp_timestamp" /\ Representable(tin[1])) =>
       ILeq(IAbs(ISub(Exact(ret.val, Units), Exact(tin[1], Units))), Pow2(Units - 22))

\* 2023-11-14T22:13:20 + 2^-22 decodes to a later time than was encoded
C7_Witness ==
  /\ op = "decode_ntp_timestamp"
  /\ tin = <<UnixTime(Word(59646, 26112), 3, 22)>>
  /\ Representable(tin[1])
  /\ ILess(Exact(tin[1], Units), Exact(ret.val, Units))

(***************************************************************************)
(* The value the offset formula gives for t1, t2, t3, t4, in units of      *)
(* 2^-33 seconds:                                                          *)
(*   ((t2.s - t1.s) + (t2.f - t1.f)/2^32 + (t3.s - t4.s) + (t3.f - t4.f)/2^32) / 2 *)
(***************************************************************************)
OffsetFormula(t1, t2, t3, t4) ==
  IAdd(IAdd(Scaled(ISub(t2[1], t1[1]), 32), ISub(t2[2], t1[2])),
       IAdd(Scaled(ISub(t3[1], t4[1]), 32), ISub(t3[2], t4[2])))

(***************************************************************************)
(* C2 as stated: compute_offset(t1, t2, t3, t4), its arguments in the      *)
(* order client transmit, server receive, server transmit, client receive, *)
(* returns the value of the offset formula.                                *)
(***************************************************************************)
C2_OffsetInProtocolOrder ==
  op = "compute_offset" =>
    Exact(ret.val, 33) = OffsetFormula(arg[1], arg[2], arg[3], arg[4])

(***************************************************************************)
(* C2 as amended: the parameters of compute_offset are, in order, client   *)
(* transmit, client receive, server transmit, server receive, so it is     *)
(* compute_offset(t1, t4, t3, t2) that returns the formula's value: the    *)
(* sum is taken left to right in double precision, which is exact whenever *)
(* both differences of seconds are below 2^19 in magnitude and within      *)
(* 2^-20 seconds of the exact value for all 32-bit inputs.                 *)
(* compute_offset((0,0), (0,0), (1,0), (1,0)) is 1.0.                      *)
(***************************************************************************)
C2_OffsetInParameterOrder ==
  op = "compute_offset" =>
    LET t1    == arg[1]
        t4    == arg[2]
        t3    == arg[3]
        t2    == arg[4]
        value == OffsetFormula(t1, t2, t3, t4)
        close == /\ ILess(IAbs(ISub(t2[1], t1[1])), Pow2(19))
                 /\ ILess(IAbs(ISub(t3[1], t4[1])), Pow2(19))
    IN  /\ close => Exact(ret.val, 33) = value
        /\ ILess(IAbs(ISub(Exact(ret.val, 33), value)), Pow2(33 - 20))

C2_Witness ==
  /\ op = "compute_offset"
  /\ arg = <<<<Int0, Int0>>, <<Int0, Int0>>, <<IntOf(1), Int0>>, <<IntOf(1), Int0>>>>
  /\ ret.val = IntToFloat(IntOf(1))

====
